---- MODULE Spec2Model ----
(***************************************************************************)
(* A model of zoopla_scraping.py: the orchestrator main(), the detail      *)
(* fetcher request_listing_data(), the field extractor parse_listing()     *)
(* and the dataset builder clean_property_data().                          *)
(*                                                                         *)
(* Text (a detail page, a price, an address) is a sequence of tokens.  A   *)
(* token is one character or one word without separators in it; the       *)
(* double quote is the token DQ and the line feed the token NL.            *)
(***************************************************************************)
EXTENDS Integers, Sequences, FiniteSets, TLC

\* ------------------------------------------------------------------ bounds
\* Longest result list one search page returns.
MaxPageLen == 2
\* Highest page number the model requests (page_num itself is unbounded).
MaxPage == 3
\* The retry counter of one detail fetch saturates here (the loop does not).
MaxAttempts == 3
\* Listings the extraction pipeline processes before the table is built.
MaxCalls == 3

\* --------------------------------------------------------------- text
DQ == "dq"
NL == "nl"
SP == " "

Range(s) == {s[i] : i \in 1..Len(s)}

IsPrefixAt(s, sep, i) ==
    /\ i + Len(sep) - 1 <= Len(s)
    /\ \A k \in 1..Len(sep) : s[i + k - 1] = sep[k]

RECURSIVE FindFrom(_, _, _)
\* Index of the leftmost occurrence of sep in s at or after i; 0 when none.
FindFrom(s, sep, i) ==
    IF i + Len(sep) - 1 > Len(s) THEN 0
    ELSE IF IsPrefixAt(s, sep, i) THEN i
    ELSE FindFrom(s, sep, i + 1)

RECURSIVE PySplit(_, _)
\* str.split(sep): the pieces between the non-overlapping occurrences of sep.
PySplit(s, sep) ==
    LET i == FindFrom(s, sep, 1)
    IN  IF i = 0 THEN <<s>>
        ELSE <<SubSeq(s, 1, i - 1)>> \o PySplit(SubSeq(s, i + Len(sep), Len(s)), sep)

\* str.replace(old, new) for a non-empty old.
PyReplaceNonEmpty(s, old, new) ==
    LET pieces == PySplit(s, old)
        Join[k \in 1..Len(pieces)] ==
            IF k = 1 THEN pieces[1] ELSE Join[k - 1] \o new \o pieces[k]
    IN  Join[Len(pieces)]

\* str.replace(old, new): an empty old matches before every character and at the end.
PyReplace(s, old, new) ==
    IF Len(old) > 0 THEN PyReplaceNonEmpty(s, old, new)
    ELSE LET Ins[k \in 0..Len(s)] ==
                 IF k = 0 THEN new ELSE Ins[k - 1] \o <<s[k]>> \o new
         IN  Ins[Len(s)]

IsSpace(c) == c \in {SP, NL}

RECURSIVE LStrip(_)
LStrip(s) == IF Len(s) > 0 /\ IsSpace(s[1]) THEN LStrip(Tail(s)) ELSE s

RECURSIVE RStrip(_)
RStrip(s) == IF Len(s) > 0 /\ IsSpace(s[Len(s)]) THEN RStrip(SubSeq(s, 1, Len(s) - 1)) ELSE s

\* str.strip()
Strip(s) == RStrip(LStrip(s))

Digits == <<"0", "1", "2", "3", "4", "5", "6", "7", "8", "9">>
IsDigit(c) == c \in Range(Digits)
DigitVal(c) == (CHOOSE i \in 1..10 : Digits[i] = c) - 1

RECURSIVE DecimalValue(_)
\* The integer a sequence of digits writes in base 10.
DecimalValue(ds) ==
    IF Len(ds) = 0 THEN 0
    ELSE 10 * DecimalValue(SubSeq(ds, 1, Len(ds) - 1)) + DigitVal(ds[Len(ds)])

\* --------------------------------------------------------------- cells
\* A value held by a dict entry or a table cell.  Every cell has the same
\* shape: t is the Python type, s the text of a str, n the value of an int or
\* the mantissa of a float, e the float's number of decimal places.
Str(s) == [t |-> "str", s |-> s, n |-> 0, e |-> 0]
IntCell(n) == [t |-> "int", s |-> <<>>, n |-> n, e |-> 0]
NaN == [t |-> "nan", s |-> <<>>, n |-> 0, e |-> 0]
EmptyStr == Str(<<>>)

RECURSIVE Normalize(_, _)
\* The float mantissa / 10^e without trailing zero decimals.
Normalize(m, e) ==
    IF m = 0 THEN [t |-> "float", s |-> <<>>, n |-> 0, e |-> 0]
    ELSE IF e > 0 /\ m % 10 = 0 THEN Normalize(m \div 10, e - 1)
    ELSE [t |-> "float", s |-> <<>>, n |-> m, e |-> e]

FloatCell(m, e) == Normalize(m, e)

Unsigned(t) == IF Len(t) > 0 /\ t[1] \in {"-", "+"} THEN Tail(t) ELSE t
IsNegative(t) == Len(t) > 0 /\ t[1] = "-"
Signed(neg, m) == IF neg THEN 0 - m ELSE m

FloatOfBody(neg, body) ==
    LET dots == {i \in 1..Len(body) : body[i] = "."}
        wellFormed ==
            /\ Cardinality(dots) <= 1
            /\ \A i \in 1..Len(body) : body[i] = "." \/ IsDigit(body[i])
            /\ \E i \in 1..Len(body) : IsDigit(body[i])
        decimals == IF dots = {} THEN 0 ELSE Len(body) - (CHOOSE i \in dots : TRUE)
    IN  IF wellFormed
        THEN [ok |-> TRUE,
              v |-> FloatCell(Signed(neg, DecimalValue(SelectSeq(body, IsDigit))), decimals)]
        ELSE [ok |-> FALSE, v |-> NaN]

FloatOfStripped(t) == FloatOfBody(IsNegative(t), Unsigned(t))

\* The text float() accepts, within the model's alphabet: white space around
\* an optional sign, digits, at most one decimal point, at least one digit.
ParseFloat(s) == FloatOfStripped(Strip(s))

IntOfBody(neg, body) ==
    IF Len(body) > 0 /\ \A i \in 1..Len(body) : IsDigit(body[i])
    THEN [ok |-> TRUE, v |-> IntCell(Signed(neg, DecimalValue(body)))]
    ELSE [ok |-> FALSE, v |-> NaN]

IntOfStripped(t) == IntOfBody(IsNegative(t), Unsigned(t))

\* The text int() accepts: white space around an optional sign and digits.
ParseInt(s) == IntOfStripped(Strip(s))

\* ------------------------------------------------------- ordered dicts
\* A Python dict: its keys in insertion order and the value of each.
EmptyDict == [keys |-> <<>>, val |-> <<>>]

\* d[k] = v: a new key goes last, an existing key keeps its place.
DictSet(d, k, v) ==
    [keys |-> IF k \in Range(d.keys) THEN d.keys ELSE Append(d.keys, k),
     val  |-> [x \in Range(d.keys) \cup {k} |-> IF x = k THEN v ELSE d.val[x]]]

RECURSIVE DictSetAll(_, _)
\* d[k] = v for each <<k, v>> of kvs, in order.
DictSetAll(d, kvs) ==
    IF Len(kvs) = 0 THEN d
    ELSE DictSetAll(DictSet(d, kvs[1][1], kvs[1][2]), Tail(kvs))

\* -------------------------------------------------------------- frames
\* A DataFrame: its column labels in order and its rows, each a function from
\* the labels to cells.
EmptyFrame == [cols |-> <<>>, rows |-> <<>>]

\* pd.DataFrame(dict1, index=[0]): one row, the dict's keys as columns.
DataFrame(d) == [cols |-> d.keys, rows |-> <<d.val>>]

\* ------------------------------------------------- the detail markers
IncodeMarker == <<DQ, "incode", DQ, ":", DQ>>
OutcodeMarker == <<DQ, "outcode", DQ, ":", DQ>>
LatitudeMarker == <<DQ, "latitude", DQ, ":", SP>>
LongitudeMarker == <<DQ, "longitude", DQ, ":", SP>>
AcornMarker == <<DQ, "acornType", DQ, ":">>
PropertyTypeMarker == <<DQ, "propertyType", DQ, ":", DQ>>
SectionOpen == "<section data-testid=page_features_section>"
SectionClose == "</section>"
SiteRoot == "https://www.zoopla.co.uk"

Failed == [ok |-> FALSE, v |-> <<>>]

\* pieces[1].split(sep)[0], which raises IndexError when pieces has one element.
FieldOf(pieces, sep) ==
    IF Len(pieces) >= 2 THEN [ok |-> TRUE, v |-> PySplit(pieces[2], sep)[1]] ELSE Failed

\* text.split(marker)[1].split(sep)[0]
Field(text, marker, sep) == FieldOf(PySplit(text, marker), sep)

\* ------------------------------------------------------ parse_listing
\* PostcodeOf with a handler that resets the postcode alone.
PostcodeOf_KeepsTokens(incode, outcode) ==
    IF incode.ok /\ outcode.ok
    THEN [postcode |-> outcode.v \o <<SP>> \o incode.v,
          postcode_district |-> incode.v,
          outcode |-> outcode.v]
    ELSE [postcode |-> <<>>, postcode_district |-> incode.v, outcode |-> outcode.v]

PostcodeOf(incode, outcode) ==
    IF incode.ok /\ outcode.ok
    THEN [postcode |-> outcode.v \o <<SP>> \o incode.v,
          postcode_district |-> incode.v,
          outcode |-> outcode.v]
    ELSE [postcode |-> <<>>, postcode_district |-> <<>>, outcode |-> <<>>]

\* The first try block: incode, then outcode, then their concatenation; any
\* failure leaves all three empty.
ExtractPostcode(text) ==
    PostcodeOf(Field(text, IncodeMarker, <<DQ>>), Field(text, OutcodeMarker, <<DQ>>))

FloatOfField(f) == IF f.ok THEN ParseFloat(Strip(f.v)) ELSE [ok |-> FALSE, v |-> NaN]

\* GeoOf with a handler that defaults the coordinates to zero.
GeoOf_ZeroDefault(lat, lon) ==
    IF lat.ok /\ lon.ok
    THEN [lat |-> lat.v, lon |-> lon.v]
    ELSE [lat |-> FloatCell(0, 0), lon |-> FloatCell(0, 0)]

GeoOf(lat, lon) ==
    IF lat.ok /\ lon.ok
    THEN [lat |-> lat.v, lon |-> lon.v]
    ELSE [lat |-> EmptyStr, lon |-> EmptyStr]

\* The second try block: latitude up to the next comma, longitude up to the
\* end of the line; any failure leaves both the empty string.
ExtractGeo(text) ==
    GeoOf(FloatOfField(Field(text, LatitudeMarker, <<",">>)),
          FloatOfField(Field(text, LongitudeMarker, <<NL>>)))

IntOfField(f) == IF f.ok THEN ParseInt(f.v) ELSE [ok |-> FALSE, v |-> NaN]

AcornOf(r) == IF r.ok THEN r.v ELSE EmptyStr

\* The third try block.
ExtractAcorn(text) == AcornOf(IntOfField(Field(text, AcornMarker, <<",">>)))

\* HasSection when the missing section is tolerated.
HasSection_Unchecked(text) == TRUE

\* s1.find('section', {'data-testid': "page_features_section"}): None when the
\* page has no such section, and None has no .text.
HasSection(text) == SectionOpen \in Range(text)

SectionText(text) == Strip(Field(text, <<SectionOpen>>, <<SectionClose>>).v)

\* Lines 146-155: the entries parse_listing adds to dict1.
FillRecord(dict1, listing, pc3, geo, acorn_type, description, property_type) ==
    DictSetAll(dict1,
        << <<"property_type", Str(property_type)>>,
           <<"postcode", Str(pc3.postcode)>>,
           <<"outcode", Str(pc3.outcode)>>,
           <<"postcode_district", Str(pc3.postcode_district)>>,
           <<"acorn_type", acorn_type>>,
           <<"display_address", Str(PyReplace(listing.address, pc3.postcode, pc3.outcode))>>,
           <<"price", Str(listing.price)>>,
           <<"latitude", geo.lat>>,
           <<"longitude", geo.lon>>,
           <<"description", Str(description)>> >>)

\* parse_listing(response, dict1, listing, dict2): the exception that leaves
\* it ("none" when it returns) and dict2 afterwards.
ParseListing(text, dict1, listing, d2) ==
    IF ~HasSection(text)
    THEN [exc |-> "AttributeError", dict2 |-> d2]
    ELSE IF ~Field(text, PropertyTypeMarker, <<DQ>>).ok
    THEN [exc |-> "IndexError", dict2 |-> d2]
    ELSE [exc |-> "none",
          dict2 |-> DictSet(d2, listing.listingId,
                        DataFrame(FillRecord(dict1, listing, ExtractPostcode(text),
                                             ExtractGeo(text), ExtractAcorn(text),
                                             SectionText(text),
                                             Field(text, PropertyTypeMarker, <<DQ>>).v)))]

\* request_listing_data, before its loop: the url and the feature tags.
RECURSIVE AddFeatures(_, _)
AddFeatures(d, f) ==
    IF Len(f) = 0 THEN d
    ELSE AddFeatures(DictSet(d, f[1].iconId, f[1].content), Tail(f))

BuildDict1(listing) ==
    AddFeatures(DictSet(EmptyDict, "url", Str(<<SiteRoot>> \o listing.detail)),
                listing.features)

\* ------------------------------------------------ clean_property_data
RECURSIVE UnionCols(_, _)
\* The column labels of a concatenation, each at its first appearance.
UnionCols(acc, frames) ==
    IF Len(frames) = 0 THEN acc
    ELSE UnionCols(acc \o SelectSeq(frames[1].cols, LAMBDA c : c \notin Range(acc)),
                   Tail(frames))

RECURSIVE AllRows(_)
AllRows(frames) ==
    IF Len(frames) = 0 THEN <<>> ELSE frames[1].rows \o AllRows(Tail(frames))

\* pd.concat(frames, sort=False): a cell no frame supplied is NaN.
ConcatOf(cols, rows) ==
    [cols |-> cols,
     rows |-> [k \in 1..Len(rows) |->
                 [c \in Range(cols) |->
                    IF c \in DOMAIN rows[k] THEN rows[k][c] ELSE NaN]]]

Concat(frames) == ConcatOf(UnionCols(<<>>, frames), AllRows(frames))

\* df[c] = the cell Val(row) in every row.
SetCol(df, c, Val(_)) ==
    [cols |-> IF c \in Range(df.cols) THEN df.cols ELSE Append(df.cols, c),
     rows |-> [k \in 1..Len(df.rows) |->
                 [x \in Range(df.cols) \cup {c} |->
                    IF x = c THEN Val(df.rows[k]) ELSE df.rows[k][x]]]]

RECURSIVE Pow10(_)
Pow10(e) == IF e = 0 THEN 1 ELSE 10 * Pow10(e - 1)

\* pd.to_numeric(text, errors='coerce') then .fillna(0).astype('int').
IntOfNumeric(r) ==
    IF ~r.ok THEN 0
    ELSE IF r.v.n >= 0 THEN r.v.n \div Pow10(r.v.e)
    ELSE 0 - ((0 - r.v.n) \div Pow10(r.v.e))

ToNumericInt(s) == IntOfNumeric(ParseFloat(s))

\* The pound sign.
GBP == "GBP"

\* PricePattern without the thousands separator.
PricePattern_PoundOnly == {GBP}

\* The characters the pattern of line 164 matches: the pound sign and the comma.
PricePattern == {GBP, ","}

\* Line 164 on one cell of the price column.
NormalizePrice(cell) ==
    IF cell.t = "str"
    THEN IntCell(ToNumericInt(SelectSeq(cell.s, LAMBDA c : c \notin PricePattern)))
    ELSE IF cell.t = "int" THEN cell
    ELSE IntCell(0)

RenameMap(c) ==
    CASE c = "chair" -> "num_recepts"
      [] c = "bed" -> "num_beds"
      [] c = "bath" -> "num_baths"
      [] OTHER -> c

\* The label a renamed label had before.
Unrenamed(df, c) == CHOOSE x \in Range(df.cols) : RenameMap(x) = c

\* df.rename(columns={...})
Rename(df) ==
    [cols |-> [k \in 1..Len(df.cols) |-> RenameMap(df.cols[k])],
     rows |-> [k \in 1..Len(df.rows) |->
                 [c \in {RenameMap(x) : x \in Range(df.cols)} |->
                    df.rows[k][Unrenamed(df, c)]]]]

\* df.replace('', np.nan)
ReplaceEmpty(df) ==
    [cols |-> df.cols,
     rows |-> [k \in 1..Len(df.rows) |->
                 [c \in Range(df.cols) |->
                    IF df.rows[k][c] = EmptyStr THEN NaN ELSE df.rows[k][c]]]]

FinalColumns ==
    <<"property_type", "price", "postcode_district", "num_baths", "postcode",
      "outcode", "acorn_type", "display_address", "num_recepts", "num_beds",
      "url", "listing_condition", "latitude", "longitude", "description">>

\* df[[...]] raises KeyError when a label is not a column.
CanProject(df, cols) == Range(cols) \subseteq Range(df.cols)

Project(df, cols) ==
    [cols |-> cols,
     rows |-> [k \in 1..Len(df.rows) |-> [c \in Range(cols) |-> df.rows[k][c]]]]

RECURSIVE DropDuplicatesFrom(_, _)
DropDuplicatesFrom(kept, rest) ==
    IF Len(rest) = 0 THEN kept
    ELSE DropDuplicatesFrom(
             IF rest[1] \in Range(kept) THEN kept ELSE Append(kept, rest[1]),
             Tail(rest))

\* DropDuplicates that drops nothing.
DropDuplicates_KeepAll(df) == df

\* df.drop_duplicates(): the first of equal rows stays (NaN equals NaN here).
DropDuplicates(df) == [cols |-> df.cols, rows |-> DropDuplicatesFrom(<<>>, df.rows)]

\* The frames of dict2 in insertion order.
DictValues(d) == [k \in 1..Len(d.keys) |-> d.val[d.keys[k]]]

PreOwned(r) == Str(<<"pre-owned">>)
PriceOf(r) == NormalizePrice(r["price"])
Absent(r) == NaN

\* Lines 162-167.
Prepare(d2) ==
    ReplaceEmpty(Rename(
        SetCol(SetCol(SetCol(Concat(DictValues(d2)), "listing_condition", PreOwned),
                      "price", PriceOf),
               "listing_id", Absent)))

\* Lines 168-173.
Finish(df, dt) ==
    IF ~CanProject(df, FinalColumns)
    THEN [exc |-> "KeyError", table |-> EmptyFrame]
    ELSE [exc |-> "none",
          table |-> DropDuplicates(
                        SetCol(Project(df, FinalColumns), "date", LAMBDA r : Str(<<dt>>)))]

\* clean_property_data(dict2, dt): the exception that leaves it ("none" when
\* the file is written) and the table written.
CleanPropertyData(d2, dt) ==
    IF Len(d2.keys) = 0
    THEN [exc |-> "ValueError", table |-> EmptyFrame]
    ELSE Finish(Prepare(d2), dt)

\* ------------------------------------------------------------- inputs
\* Search result items, as get_page_listings returns them.
Feature(id, n) == [iconId |-> id, content |-> IntCell(n)]

AllTags == <<Feature("bed", 3), Feature("bath", 2), Feature("chair", 1)>>
WithUnknownTag == <<Feature("bed", 3), Feature("garage", 1), Feature("bath", 2), Feature("chair", 1)>>
BedOnly == <<Feature("bed", 2)>>

Price350k == <<GBP, "3", "5", "0", ",", "0", "0", "0">>
PricePOA == <<"P", "O", "A">>
PriceSymbolOnly == <<GBP>>
PricePcm == <<GBP, "1", ",", "2", "0", "0", SP, "p", "c", "m">>
PricePlain == <<"0", "2", "5", "0">>

AddressWithPostcode == <<"SW1A", SP, "1AA", ",", SP, "London">>
AddressPlain == <<"High", SP, "Street">>

Listing(id, detail, price, features, address) ==
    [listingId |-> id, detail |-> <<detail>>, price |-> price, features |-> features,
     address |-> address, featuresNull |-> FALSE]

\* An item whose 'features' is null.
NullFeatures(id, detail) ==
    [listingId |-> id, detail |-> <<detail>>, price |-> PricePOA, features |-> <<>>,
     address |-> AddressPlain, featuresNull |-> TRUE]

SampleListings ==
    { Listing(1, "/for-sale/details/1", Price350k, AllTags, AddressWithPostcode),
      Listing(2, "/for-sale/details/1", Price350k, AllTags, AddressWithPostcode),
      Listing(1, "/for-sale/details/1", PricePOA, WithUnknownTag, AddressWithPostcode),
      Listing(2, "/for-sale/details/2", PriceSymbolOnly, BedOnly, AddressPlain),
      Listing(2, "/for-sale/details/2", PricePcm, <<>>, AddressPlain),
      Listing(1, "/for-sale/details/3", PricePlain, AllTags, AddressPlain) }

PageItems ==
    { Listing(1, "/for-sale/details/1", Price350k, AllTags, AddressWithPostcode),
      Listing(2, "/for-sale/details/2", PricePOA, BedOnly, AddressPlain),
      NullFeatures(3, "/for-sale/details/3") }

\* Detail pages.  A page is built from three parts; pk, gk and tk say which
\* variant of each part the text holds.
PostcodeKinds == {"both", "none", "incode", "outcode"}
GeoKinds == {"both", "none", "latonly", "lononly", "latbad", "lonbad", "zero"}
TailKinds == {"full", "noacorn", "nosection", "noptype"}

PostcodeSeg(k) ==
    (IF k \in {"both", "outcode"} THEN OutcodeMarker \o <<"SW1A", DQ, ",">> ELSE <<>>)
    \o (IF k \in {"both", "incode"} THEN IncodeMarker \o <<"1AA", DQ, ",">> ELSE <<>>)

Lat515 == <<"5", "1", ".", "5">>
LonMinus014 == <<"-", "0", ".", "1", "4">>

GeoSeg(k) ==
    CASE k = "both" -> LatitudeMarker \o Lat515 \o <<",", NL>>
                       \o LongitudeMarker \o LonMinus014 \o <<NL>>
      [] k = "none" -> <<>>
      [] k = "latonly" -> LatitudeMarker \o Lat515 \o <<",", NL>>
      [] k = "lononly" -> LongitudeMarker \o LonMinus014 \o <<NL>>
      [] k = "latbad" -> LatitudeMarker \o <<"null", ",", NL>>
                         \o LongitudeMarker \o LonMinus014 \o <<NL>>
      [] k = "lonbad" -> LatitudeMarker \o Lat515 \o <<",", NL>>
                         \o LongitudeMarker \o LonMinus014 \o <<",", NL>>
      [] k = "zero" -> LatitudeMarker \o <<"0", ",", NL>>
                       \o LongitudeMarker \o <<"0", ".", "0", NL>>

TailSeg(k) ==
    (IF k # "noacorn" THEN AcornMarker \o <<"2", "7", ",">> ELSE <<>>)
    \o (IF k # "noptype" THEN PropertyTypeMarker \o <<"flat", DQ, ",">> ELSE <<>>)
    \o (IF k # "nosection"
        THEN <<SectionOpen, SP, "Two", SP, "bedrooms", NL, SectionClose>> ELSE <<>>)

Payload(pk, gk, tk) ==
    [text |-> <<"<html>">> \o PostcodeSeg(pk) \o GeoSeg(gk) \o TailSeg(tk),
     pk |-> pk, gk |-> gk, tk |-> tk]

Payloads == {Payload(pk, gk, tk) : pk \in PostcodeKinds, gk \in GeoKinds, tk \in TailKinds}

NoPayload == [text |-> <<>>, pk |-> "none", gk |-> "none", tk |-> "nosection"]

\* datetime.today().strftime('%Y-%m-%d')
Today == "2022-06-01"

\* -------------------------------------------------------------- state
VARIABLES
    pc,         \* where the run is
    ti,         \* index of main's property_type in property_types
    page_num,   \* main's page_num
    listings,   \* the page main iterates over
    li,         \* index of main's listing in listings
    attempts,   \* passes through request_listing_data's loop for this listing
    net,        \* what the network does with the current GET
    outcome,    \* how the last pass through the try block ended
    slept,      \* seconds the last time.sleep took, 0 once a new pass began
    log,        \* the get_page_listings calls made, each with what it returned
    dict2,      \* main's dict2: listing id -> one-row frame
    out,        \* zoopla_data.xlsx: whether it was written, and the table
    exc,        \* the exception that escaped the last operation, "none" if none
    builds,     \* calls of clean_property_data so far
    listing,    \* the search item a parse_listing call is given
    response,   \* the detail page a parse_listing call is given
    calls,      \* listings processed by the extraction pipeline
    seen        \* listing ids parse_listing stored a record for

vars == <<pc, ti, page_num, listings, li, attempts, net, outcome, slept, log,
          dict2, out, exc, builds, listing, response, calls, seen>>

NoOutput == [written |-> FALSE, table |-> EmptyFrame]

\* ------------------------------------------------------------- main()
property_types ==
    <<"farms_land", "semi_detached", "flats", "detached", "terraced", "bungalow",
      "park_home">>

\* time.sleep(30)
SleepSeconds == 30

\* What the search API does with one POST: fail (a transport error, a body
\* that is not the expected JSON), or answer with the 'regular' list, which
\* may be null.
ApiAnswers ==
    {[err |-> TRUE, null |-> FALSE, regular |-> <<>>],
     [err |-> FALSE, null |-> TRUE, regular |-> <<>>]}
    \cup {[err |-> FALSE, null |-> FALSE, regular |-> r] :
            r \in UNION {[1..n -> PageItems] : n \in 0..MaxPageLen}}

None == [none |-> TRUE, items |-> <<>>]

\* get_page_listings(page_num, property_type), given the API's answer.
GetPageListingsResult(a) ==
    IF a.err \/ a.null THEN None ELSE [none |-> FALSE, items |-> a.regular]

\* NoListings without the length test.
NoListings_NoneOnly(l) == l.none

\* "listings is None or len(listings) == 0"
NoListings(l) == l.none \/ Len(l.items) = 0

ResultKind(l) ==
    IF l.none THEN "none" ELSE IF Len(l.items) = 0 THEN "empty" ELSE "some"

\* IsLastType with the build inside the loop over the property types.
IsLastType_Every(t) == TRUE

\* The for loop over property_types has no next element.
IsLastType(t) == t = Len(property_types)

Init ==
    /\ pc = "page"
    /\ ti = 1
    /\ page_num = 1
    /\ listings = <<>>
    /\ li = 0
    /\ attempts = 0
    /\ net = "none"
    /\ outcome = "none"
    /\ slept = 0
    /\ log = <<>>
    /\ dict2 = EmptyDict
    /\ out = NoOutput
    /\ exc = "none"
    /\ builds = 0
    /\ listing = NullFeatures(0, "")
    /\ response = NoPayload
    /\ calls = 0
    /\ seen = {}

\* Lines 188-192: one get_page_listings call and the test that follows it.
GetPageListings ==
    /\ pc = "page"
    /\ page_num <= MaxPage
    /\ \E a \in ApiAnswers :
         LET l == GetPageListingsResult(a)
         IN  /\ log' = Append(log, [ti |-> ti, page |-> page_num, kind |-> ResultKind(l)])
             /\ IF NoListings(l)
                THEN /\ pc' = IF IsLastType(ti) THEN "clean" ELSE "page"
                     /\ ti' = IF IsLastType(ti) THEN ti ELSE ti + 1
                     /\ page_num' = IF IsLastType(ti) THEN page_num ELSE 1
                     /\ UNCHANGED <<listings, li>>
                ELSE /\ pc' = "request"
                     /\ listings' = l.items
                     /\ li' = 1
                     /\ UNCHANGED <<ti, page_num>>
    /\ UNCHANGED <<attempts, net, outcome, slept, dict2, out, exc, builds, listing,
                   response, calls, seen>>

\* Lines 193-194 and 95-101: the next listing of the page, or the end of the
\* page; the url and the features of the listing.
RequestListingData ==
    /\ pc = "request"
    /\ IF li > Len(listings)
       THEN /\ page_num' = page_num + 1
            /\ pc' = "page"
            /\ UNCHANGED <<attempts, exc>>
       ELSE IF listings[li].featuresNull
       THEN /\ exc' = "TypeError"
            /\ pc' = "except"
            /\ UNCHANGED <<page_num, attempts>>
       ELSE /\ pc' = "attempt"
            /\ attempts' = 0
            /\ UNCHANGED <<page_num, exc>>
    /\ UNCHANGED <<ti, listings, li, net, outcome, slept, log, dict2, out, builds,
                   listing, response, calls, seen>>

\* Whether the name params of line 110 is bound when the call is evaluated:
\* its assignment (lines 104-107) is commented out and the module binds no
\* global of that name.
ParamsBound == FALSE

NetOutcomes == {"answers", "timeout", "refused"}

\* The exception evaluating requests.get(ln, params=params) raises.
GetException(n) ==
    IF ~ParamsBound THEN "NameError"
    ELSE IF n = "timeout" THEN "Timeout"
    ELSE IF n = "refused" THEN "ConnectionError"
    ELSE "none"

\* Caught with a handler for the transport errors alone.
Caught_TransportOnly(e) == e \in {"Timeout", "ConnectionError"}

\* "except Exception" of line 114.
Caught(e) == e \in {"NameError", "Timeout", "ConnectionError", "IndexError"}

Saturated(n) == IF n < MaxAttempts THEN n + 1 ELSE n

\* Lines 195-198: parse_listing returned or raised r.exc.
Parsed(r, id) ==
    /\ dict2' = r.dict2
    /\ exc' = r.exc
    /\ IF r.exc = "none"
       THEN /\ pc' = "request"
            /\ li' = li + 1
            /\ seen' = seen \cup {id}
       ELSE /\ pc' = "except"
            /\ UNCHANGED <<li, seen>>

\* Lines 102-119 and 195-198: one pass through the try block; when it
\* breaks, the return, parse_listing and the step to the next listing.
Attempt ==
    /\ pc = "attempt"
    /\ \E n \in NetOutcomes :
         /\ net' = n
         /\ slept' = 0
         /\ attempts' = Saturated(attempts)
         /\ IF GetException(n) # "none"
            THEN /\ outcome' = GetException(n)
                 /\ IF Caught(GetException(n))
                    THEN pc' = "sleep" /\ exc' = exc
                    ELSE pc' = "except" /\ exc' = GetException(n)
                 /\ UNCHANGED <<li, dict2, response, seen>>
            ELSE \E p \in Payloads :
                 /\ response' = p
                 /\ IF ~Field(p.text, LatitudeMarker, <<",">>).ok
                    THEN /\ outcome' = "IndexError"
                         /\ pc' = "sleep"
                         /\ UNCHANGED <<li, dict2, exc, seen>>
                    ELSE /\ outcome' = "ok"
                         /\ Parsed(ParseListing(p.text, BuildDict1(listings[li]),
                                                listings[li], dict2),
                                   listings[li].listingId)
    /\ UNCHANGED <<ti, page_num, listings, log, out, builds, listing, calls>>

\* Lines 114-118: the failure was printed; wait, then go round again.
Sleep ==
    /\ pc = "sleep"
    /\ slept' = SleepSeconds
    /\ pc' = "attempt"
    /\ UNCHANGED <<ti, page_num, listings, li, attempts, net, outcome, log, dict2,
                   out, exc, builds, listing, response, calls, seen>>

\* Lines 173 and 199-200: the table was written, or r.exc left the builder.
Built(r) ==
    /\ exc' = r.exc
    /\ IF r.exc = "none"
       THEN out' = [written |-> TRUE, table |-> r.table] /\ pc' = "done"
       ELSE out' = out /\ pc' = "except"

\* Line 199.
Clean ==
    /\ pc = "clean"
    /\ builds' = builds + 1
    /\ Built(CleanPropertyData(dict2, Today))
    /\ UNCHANGED <<ti, page_num, listings, li, attempts, net, outcome, slept, log,
                   dict2, listing, response, calls, seen>>

\* Lines 200-202: the exception is printed; send_discord_notification is not
\* defined, so the handler raises NameError and main ends with it.
ExceptHandler ==
    /\ pc = "except"
    /\ exc' = "NameError"
    /\ pc' = "crashed"
    /\ UNCHANGED <<ti, page_num, listings, li, attempts, net, outcome, slept, log,
                   dict2, out, builds, listing, response, calls, seen>>

Next ==
    \/ GetPageListings
    \/ RequestListingData
    \/ Attempt
    \/ Sleep
    \/ Clean
    \/ ExceptHandler

Spec == Init /\ [][Next]_vars

\* The interpreter runs the one thread whenever it can take a step.
FairSpec == Spec /\ WF_vars(Next)

\* ------------------------------------------- the extraction pipeline
\* The body of main's inner loop from the point where request_listing_data
\* has returned a detail page: lines 194-195 on inputs drawn freely, and
\* line 199 after it.  dict2 starts with what earlier listings left in it.
FirstListing == Listing(1, "/for-sale/details/1", Price350k, AllTags, AddressWithPostcode)
SecondListing == Listing(2, "/for-sale/details/2", PricePOA, AllTags, AddressPlain)

Earlier(l, p) == ParseListing(p.text, BuildDict1(l), l, EmptyDict).dict2

EarlierDatasets ==
    { EmptyDict,
      Earlier(FirstListing, Payload("both", "both", "full")),
      Earlier(SecondListing, Payload("none", "none", "full")) }

InitParse ==
    /\ pc = "body"
    /\ listing \in SampleListings
    /\ response \in Payloads
    /\ dict2 \in EarlierDatasets
    /\ seen = {dict2.keys[k] : k \in 1..Len(dict2.keys)}
    /\ calls = 0
    /\ out = NoOutput
    /\ exc = "none"
    /\ builds = 0
    /\ ti = 1
    /\ page_num = 1
    /\ listings = <<>>
    /\ li = 0
    /\ attempts = 0
    /\ net = "answers"
    /\ outcome = "ok"
    /\ slept = 0
    /\ log = <<>>

\* parse_listing returned or raised r.exc; an exception ends the loop.
Stored(r, id, after) ==
    /\ dict2' = r.dict2
    /\ exc' = r.exc
    /\ seen' = IF r.exc = "none" THEN seen \cup {id} ELSE seen
    /\ pc' = IF r.exc = "none" THEN after ELSE "aborted"

\* Lines 194-195 on the drawn listing and detail page.
LoopBody ==
    /\ pc = "body"
    /\ calls' = calls + 1
    /\ Stored(ParseListing(response.text, BuildDict1(listing), listing, dict2),
              listing.listingId, "parsed")
    /\ UNCHANGED <<ti, page_num, listings, li, attempts, net, outcome, slept, log,
                   out, builds, listing, response>>

\* Line 199 once the loops have ended without an exception.
Build ==
    /\ pc \in {"parsed", "collect"}
    /\ builds' = builds + 1
    /\ Built(CleanPropertyData(dict2, Today))
    /\ UNCHANGED <<ti, page_num, listings, li, attempts, net, outcome, slept, log,
                   dict2, listing, response, calls, seen>>

NextParse == LoopBody \/ Build

SpecParse == InitParse /\ [][NextParse]_vars

\* Detail pages every field group of which parses, or none but the required.
BuildPayloads ==
    { Payload("both", "both", "full"),
      Payload("none", "none", "full"),
      Payload("both", "zero", "noacorn") }

InitBuild ==
    /\ pc = "collect"
    /\ listing = FirstListing
    /\ response = NoPayload
    /\ dict2 = EmptyDict
    /\ seen = {}
    /\ calls = 0
    /\ out = NoOutput
    /\ exc = "none"
    /\ builds = 0
    /\ ti = 1
    /\ page_num = 1
    /\ listings = <<>>
    /\ li = 0
    /\ attempts = 0
    /\ net = "answers"
    /\ outcome = "ok"
    /\ slept = 0
    /\ log = <<>>

\* Lines 194-195 for one more listing of the run.
Collect ==
    /\ pc = "collect"
    /\ calls < MaxCalls
    /\ calls' = calls + 1
    /\ \E l \in SampleListings, p \in BuildPayloads :
         /\ listing' = l
         /\ response' = p
         /\ Stored(ParseListing(p.text, BuildDict1(l), l, dict2), l.listingId, "collect")
    /\ UNCHANGED <<ti, page_num, listings, li, attempts, net, outcome, slept, log,
                   out, builds>>

NextBuild == Collect \/ Build

SpecBuild == InitBuild /\ [][NextBuild]_vars

\* ------------------------------------------------------------- claims
Ended == {"none", "empty"}

\* C1: main requests the pages of a property type in the order 1, 2, 3, ...;
\* the first page that comes back with no listings (an empty list or None) is
\* the last one requested for that type, and the next request is page 1 of
\* the next property type: the run goes on.
C1_PaginationStopsAtEmptyPage ==
    /\ Len(log) > 0 => log[1].ti = 1 /\ log[1].page = 1
    /\ \A i \in 1..(Len(log) - 1) :
         IF log[i].kind \in Ended
         THEN log[i + 1].ti = log[i].ti + 1 /\ log[i + 1].page = 1
         ELSE log[i + 1].ti = log[i].ti /\ log[i + 1].page = log[i].page + 1
    /\ (Len(log) > 0 /\ log[Len(log)].kind \in Ended /\ log[Len(log)].ti < 7)
         => pc = "page" /\ ti = log[Len(log)].ti + 1 /\ page_num = 1

\* A failed search request and an empty page have each ended a property type,
\* and the page after them was requested.
C1_Witness ==
    /\ Len(log) >= 3
    /\ log[1].kind = "none"
    /\ log[2].kind = "empty"
    /\ log[3].ti = 3

\* C2: a pass through request_listing_data's loop that fails is followed by
\* the 30-second wait and then by another pass for the same listing; the loop
\* is left only by a pass that succeeded, never with a failure handed to main.
C2_RetryHasNoFailureExit ==
    [][ /\ (pc = "attempt" /\ outcome' # "ok")
            => pc' = "sleep" /\ exc' = exc /\ li' = li /\ listings' = listings
        /\ (pc = "attempt" /\ pc' # "sleep") => outcome' = "ok"
        /\ pc = "sleep"
            => pc' = "attempt" /\ slept' = 30 /\ li' = li /\ listings' = listings
      ]_vars

\* The wait after a third consecutive failure.
C2_Witness == pc = "sleep" /\ attempts = 3 /\ slept = 0 /\ outcome # "ok"

\* C3: if from some point on the network answers every GET, a detail fetch
\* that has begun leaves its retry loop.
C3_ReturnsOnceNetworkAnswers ==
    (<>[](net \notin {"timeout", "refused"}))
        => [](pc = "attempt" => <>(pc \notin {"attempt", "sleep"}))

AllTypesEnded ==
    \A t \in 1..7 : \E i \in 1..Len(log) : log[i].ti = t /\ log[i].kind \in Ended

Requesting == {"page", "request", "attempt", "sleep"}

\* C10: clean_property_data is called at most once in a run, only when the
\* pagination of all seven property types has ended, and no page or detail
\* request follows it; once an exception has escaped a listing or a page,
\* clean_property_data is not called and no file is written.
C10_BuiltOnceAfterAllTypes ==
    /\ [](/\ builds <= 1
          /\ builds = 1 => AllTypesEnded /\ pc \notin Requesting
          /\ out.written => builds = 1)
    /\ [][ /\ builds = 1 => log' = log /\ pc' \notin Requesting
           /\ (builds = 0 /\ pc \in {"except", "crashed"})
                => builds' = 0 /\ ~out'.written /\ pc' \in {"except", "crashed"}
         ]_vars

\* clean_property_data has been called, after seven ended paginations.
C10_Witness == builds = 1 /\ Len(log) = 7 /\ pc = "except"

\* The record the loop body stored for its listing.
StoredRecord == dict2.val[listing.listingId].rows[1]

\* A row of the written table that comes from the stored record.
RowOfRecord(row) == row["url"] = StoredRecord["url"]

TableRows == {out.table.rows[k] : k \in 1..Len(out.table.rows)}

\* C4: when the latitude or the longitude marker is missing from the detail
\* page, or its value is not a number, the record holds the empty string for
\* both and the written table the absent marker for both, never zero and
\* never one without the other; when both parse the record holds the two values.
C4_GeoBothOrAbsent ==
    /\ (pc = "parsed" /\ exc = "none") =>
         CASE response.gk = "both" ->
                /\ StoredRecord["latitude"] = [t |-> "float", s |-> <<>>, n |-> 515, e |-> 1]
                /\ StoredRecord["longitude"] = [t |-> "float", s |-> <<>>, n |-> 0 - 14, e |-> 2]
           [] response.gk = "zero" ->
                /\ StoredRecord["latitude"] = [t |-> "float", s |-> <<>>, n |-> 0, e |-> 0]
                /\ StoredRecord["longitude"] = [t |-> "float", s |-> <<>>, n |-> 0, e |-> 0]
           [] OTHER ->
                /\ StoredRecord["latitude"] = EmptyStr
                /\ StoredRecord["longitude"] = EmptyStr
    /\ (pc = "done" /\ out.written) =>
         /\ \A row \in TableRows :
              /\ row["latitude"].t \in {"float", "nan"}
              /\ row["latitude"].t = "nan" <=> row["longitude"].t = "nan"
         /\ response.gk \notin {"both", "zero"} =>
              \E row \in TableRows :
                 RowOfRecord(row) /\ row["latitude"] = NaN /\ row["longitude"] = NaN

\* A page with a latitude and a malformed longitude went into a written table.
C4_Witness ==
    /\ pc = "done"
    /\ out.written
    /\ response.gk = "lonbad"
    /\ \E row \in TableRows : RowOfRecord(row) /\ row["latitude"] = NaN

\* C5: with both the incode and the outcode marker in the page, postcode is
\* the outcode, a space and the incode, and outcode and postcode_district are
\* the two tokens; with either marker missing all three are empty, and the
\* missing marker raises nothing.
C5_PostcodeFromBothMarkers ==
    (pc \in {"parsed", "aborted"}) =>
      /\ response.tk \in {"full", "noacorn"} => exc = "none" /\ pc = "parsed"
      /\ pc = "parsed" =>
           /\ StoredRecord["postcode"].s =
                StoredRecord["outcode"].s \o <<" ">> \o StoredRecord["postcode_district"].s
                \/ StoredRecord["postcode"] = EmptyStr
           /\ IF response.pk = "both"
              THEN /\ StoredRecord["outcode"] = Str(<<"SW1A">>)
                   /\ StoredRecord["postcode_district"] = Str(<<"1AA">>)
                   /\ StoredRecord["postcode"] = Str(<<"SW1A", " ", "1AA">>)
              ELSE /\ StoredRecord["outcode"] = EmptyStr
                   /\ StoredRecord["postcode_district"] = EmptyStr
                   /\ StoredRecord["postcode"] = EmptyStr

\* A page with the incode marker alone was parsed into a record.
C5_Witness == pc = "parsed" /\ exc = "none" /\ response.pk = "incode"

\* C9: a detail page without the features section makes parse_listing raise;
\* nothing is stored for the listing, the records of earlier listings stay as
\* they were, and the loop does not go on to build the table.
C9_MissingSectionAborts ==
    [][ (pc = "body" /\ response.tk = "nosection")
          => /\ exc' = "AttributeError"
             /\ dict2' = dict2
             /\ seen' = seen
             /\ pc' = "aborted"
      ]_vars

\* parse_listing raised on a page without the section while dict2 held a record.
C9_Witness ==
    /\ pc = "aborted"
    /\ response.tk = "nosection"
    /\ exc = "AttributeError"
    /\ Len(dict2.keys) = 1

\* The integer each sample display price stands for.
ExpectedPrice(raw) ==
    CASE raw = <<"GBP", "3", "5", "0", ",", "0", "0", "0">> -> 350000
      [] raw = <<"0", "2", "5", "0">> -> 250
      [] raw = <<"GBP">> -> 0
      [] raw = <<"P", "O", "A">> -> 0
      [] raw = <<"GBP", "1", ",", "2", "0", "0", " ", "p", "c", "m">> -> 0

C7_NoDuplicateRows ==
    out.written =>
      /\ \A i, j \in 1..Len(out.table.rows) :
           out.table.rows[i] = out.table.rows[j] => i = j
      /\ Len(out.table.rows) <= Cardinality(seen)
      /\ Len(out.table.rows) >= 1

\* Two listing identifiers with equal rows, and a listing seen twice, gave one row.
C7_Witness ==
    /\ out.written
    /\ Cardinality(seen) = 2
    /\ calls = 3
    /\ Len(out.table.rows) = 1

\* C8: whatever feature tags the listings of a non-empty dataset carry,
\* clean_property_data completes and the table's columns are the fixed list
\* followed by date.
C8_FixedColumnsForAnyTags ==
    (builds = 1 /\ Len(dict2.keys) > 0) =>
      /\ out.written
      /\ out.table.cols = FinalColumns \o <<"date">>

====
